---- MODULE Spec2Model ----
(***************************************************************************)
(* BillScan Pro backend (server/start.sh, the embedded Express server):    *)
(* the in-memory record store, the upload handler, the background          *)
(* pipeline processImageAsync, the record endpoints, the field extractor   *)
(* and the Excel export, as a state machine.                               *)
(*                                                                         *)
(* JavaScript runs one task at a time: a request handler, and each         *)
(* stretch of processImageAsync between two awaits, is one atomic action.  *)
(***************************************************************************)
EXTENDS Integers, Sequences, FiniteSets, TLC

(***************************************************************************)
(* Values.  A JavaScript string that the code computes on is a sequence of *)
(* one-character strings; null is Null, any other value v of a nullable    *)
(* field is Some(v); a number is a reduced fraction.                       *)
(***************************************************************************)
Null == <<>>

Some(v) == <<v>>

RECURSIVE Gcd(_, _)
Gcd(a, b) == IF b = 0 THEN a ELSE Gcd(b, a % b)

Num(n, d) == LET g == Gcd(n, d) IN IF n = 0 THEN [n |-> 0, d |-> 1] ELSE [n |-> n \div g, d |-> d \div g]

Zero == Num(0, 1)

(* JavaScript truthiness of a number, as in `x || 0` *)
Truthy(x) == x.n # 0

Digits == <<"0", "1", "2", "3", "4", "5", "6", "7", "8", "9">>

Digit == {Digits[k] : k \in 1..Len(Digits)}

LowerAlpha == {"a", "b", "c", "d", "e", "f", "g", "h", "i", "j", "k", "l", "m", "n", "o", "p", "q", "r", "s", "t", "u", "v", "w", "x", "y", "z"}

Upper == <<"A", "B", "C", "D", "E", "F", "G", "H", "I", "J", "K", "L", "M", "N", "O", "P", "Q", "R", "S", "T", "U", "V", "W", "X", "Y", "Z">>

Lower == <<"a", "b", "c", "d", "e", "f", "g", "h", "i", "j", "k", "l", "m", "n", "o", "p", "q", "r", "s", "t", "u", "v", "w", "x", "y", "z">>

(* String.prototype.toLowerCase on one character *)
ToLowerChar(c) == IF \E k \in 1..Len(Upper) : Upper[k] = c THEN Lower[CHOOSE k \in 1..Len(Upper) : Upper[k] = c] ELSE c

toLowerCase(s) == [k \in 1..Len(s) |-> ToLowerChar(s[k])]

(* the regular expression class \s, on the characters the model uses *)
Space == {" ", "\t", "\n", "\r"}

DigitValue(c) == (CHOOSE k \in 1..Len(Digits) : Digits[k] = c) - 1

(***************************************************************************)
(* Regular expressions, with the backtracking order of the JavaScript      *)
(* engine.  A pattern is a tree; Match gives, for a start position, every  *)
(* way the pattern can match there as a sequence of [pos, caps] in the     *)
(* order the engine tries them, so the engine's match is the first.        *)
(***************************************************************************)
Cls(S) == [t |-> "cls", set |-> S]

NotCls(S) == [t |-> "not", set |-> S]

Cat(parts) == [t |-> "cat", parts |-> parts]

Alt(parts) == [t |-> "alt", parts |-> parts]

Rep(r, min, max, greedy) == [t |-> "rep", r |-> r, min |-> min, max |-> max, greedy |-> greedy]

Grp(n, r) == [t |-> "grp", n |-> n, r |-> r]

Bol == [t |-> "bol"]

Eol == [t |-> "eol"]

Lit(w) == Cat([k \in 1..Len(w) |-> Cls({w[k]})])

Unbounded == -1

Star(r) == Rep(r, 0, Unbounded, TRUE)

Plus(r) == Rep(r, 1, Unbounded, TRUE)

Opt(r) == Rep(r, 0, 1, TRUE)

SubStr(s, i, j) == [k \in 1..(j - i) |-> s[i + k - 1]]

RECURSIVE Match(_, _, _, _, _)
RECURSIVE MatchCat(_, _, _, _, _, _)
RECURSIVE ThenCat(_, _, _, _, _, _)
RECURSIVE MatchAlt(_, _, _, _, _, _)
RECURSIVE MatchRep(_, _, _, _, _, _)
RECURSIVE ThenRep(_, _, _, _, _, _)

Match(re, s, i, caps, ic) ==
  CASE re.t = "cls" ->
         IF i <= Len(s) /\ (IF ic THEN ToLowerChar(s[i]) ELSE s[i]) \in re.set
         THEN <<[pos |-> i + 1, caps |-> caps]>> ELSE <<>>
    [] re.t = "not" ->
         IF i <= Len(s) /\ s[i] \notin re.set
         THEN <<[pos |-> i + 1, caps |-> caps]>> ELSE <<>>
    [] re.t = "cat" -> MatchCat(re.parts, 1, s, i, caps, ic)
    [] re.t = "alt" -> MatchAlt(re.parts, 1, s, i, caps, ic)
    [] re.t = "rep" -> MatchRep(re, 0, s, i, caps, ic)
    [] re.t = "grp" ->
         LET rs == Match(re.r, s, i, caps, ic)
         IN [j \in 1..Len(rs) |->
               [pos |-> rs[j].pos,
                caps |-> [rs[j].caps EXCEPT ![re.n] = Some(SubStr(s, i, rs[j].pos))]]]
    [] re.t = "bol" -> IF i = 1 THEN <<[pos |-> i, caps |-> caps]>> ELSE <<>>
    [] re.t = "eol" -> IF i = Len(s) + 1 THEN <<[pos |-> i, caps |-> caps]>> ELSE <<>>

MatchCat(parts, k, s, i, caps, ic) ==
  IF k > Len(parts) THEN <<[pos |-> i, caps |-> caps]>>
  ELSE ThenCat(Match(parts[k], s, i, caps, ic), 1, parts, k + 1, s, ic)

ThenCat(rs, j, parts, k, s, ic) ==
  IF j > Len(rs) THEN <<>>
  ELSE MatchCat(parts, k, s, rs[j].pos, rs[j].caps, ic) \o ThenCat(rs, j + 1, parts, k, s, ic)

MatchAlt(parts, k, s, i, caps, ic) ==
  IF k > Len(parts) THEN <<>>
  ELSE Match(parts[k], s, i, caps, ic) \o MatchAlt(parts, k + 1, s, i, caps, ic)

MatchRep(re, n, s, i, caps, ic) ==
  LET once == SelectSeq(Match(re.r, s, i, caps, ic), LAMBDA m : m.pos > i)
      more == IF re.max = Unbounded \/ n < re.max THEN ThenRep(once, 1, re, n + 1, s, ic) ELSE <<>>
      stop == IF n >= re.min THEN <<[pos |-> i, caps |-> caps]>> ELSE <<>>
  IN IF re.greedy THEN more \o stop ELSE stop \o more

ThenRep(rs, j, re, n, s, ic) ==
  IF j > Len(rs) THEN <<>>
  ELSE MatchRep(re, n, s, rs[j].pos, rs[j].caps, ic) \o ThenRep(rs, j + 1, re, n, s, ic)

NoMatch == [found |-> FALSE]

(* RegExp.prototype.exec from position `from`: the leftmost start that     *)
(* matches, and at that start the engine's first way of matching.          *)
RECURSIVE Exec(_, _, _, _, _)
Exec(re, ngroups, s, from, ic) ==
  IF from > Len(s) + 1 THEN NoMatch
  ELSE LET rs == Match(re, s, from, [g \in 1..ngroups |-> Null], ic)
       IN IF Len(rs) > 0
          THEN [found |-> TRUE, index |-> from, end |-> rs[1].pos,
                all |-> SubStr(s, from, rs[1].pos), caps |-> rs[1].caps]
          ELSE Exec(re, ngroups, s, from + 1, ic)

(* RegExp.prototype.test *)
Test(re, s, ic) == Exec(re, 0, s, 1, ic).found

(***************************************************************************)
(* The field extractor.                                                    *)
(***************************************************************************)
D == Cls(Digit)

\* \d+\.?\d*
Decimal == Cat(<<Plus(D), Opt(Cls({"."})), Star(D)>>)

\* /(?:invoice|inv|bill)[\s#:]*([a-z0-9\-]+)/i
InvoiceRe ==
  Cat(<<Alt(<<Lit(<<"i", "n", "v", "o", "i", "c", "e">>), Lit(<<"i", "n", "v">>), Lit(<<"b", "i", "l", "l">>)>>),
        Star(Cls(Space \cup {"#", ":"})),
        Grp(1, Plus(Cls(LowerAlpha \cup Digit \cup {"-"})))>>)

DateSep == Cls({"/", "-"})

\* /(\d{1,2}[\/\-]\d{1,2}[\/\-]\d{2,4})|(\d{4}[\/\-]\d{1,2}[\/\-]\d{1,2})/
DateRe ==
  Alt(<<Grp(1, Cat(<<Rep(D, 1, 2, TRUE), DateSep, Rep(D, 1, 2, TRUE), DateSep, Rep(D, 2, 4, TRUE)>>)),
        Grp(2, Cat(<<Rep(D, 4, 4, TRUE), DateSep, Rep(D, 1, 2, TRUE), DateSep, Rep(D, 1, 2, TRUE)>>))>>)

\* /(?:total|amount|sum)[\s:$]*(\d+\.?\d*)/i
AmountRe ==
  Cat(<<Alt(<<Lit(<<"t", "o", "t", "a", "l">>), Lit(<<"a", "m", "o", "u", "n", "t">>), Lit(<<"s", "u", "m">>)>>),
        Star(Cls(Space \cup {":", "$"})),
        Grp(1, Decimal)>>)

\* /^\d+$/
AllDigitsRe == Cat(<<Bol, Plus(D), Eol>>)

\* /^[\/\-\s]+$/
AllPunctRe == Cat(<<Bol, Plus(Cls({"/", "-"} \cup Space)), Eol>>)

\* /(.+?)\s+(\d+)\s*x?\s*\$?(\d+\.?\d*)\s*\$?(\d+\.?\d*)/g
itemPattern ==
  Cat(<<Grp(1, Rep(NotCls({"\n", "\r"}), 1, Unbounded, FALSE)),
        Plus(Cls(Space)),
        Grp(2, Plus(D)),
        Star(Cls(Space)), Opt(Cls({"x"})), Star(Cls(Space)), Opt(Cls({"$"})),
        Grp(3, Decimal),
        Star(Cls(Space)), Opt(Cls({"$"})),
        Grp(4, Decimal)>>)

RECURSIVE Pow10(_)
Pow10(k) == IF k = 0 THEN 1 ELSE 10 * Pow10(k - 1)

(* the value of a run of digits *)
RECURSIVE DigitsValue(_)
DigitsValue(s) == IF Len(s) = 0 THEN 0 ELSE 10 * DigitsValue(SubStr(s, 1, Len(s))) + DigitValue(s[Len(s)])

(* the length of the run of digits of s that starts at position i *)
RECURSIVE DigitRun(_, _)
DigitRun(s, i) == IF i <= Len(s) /\ s[i] \in Digit THEN 1 + DigitRun(s, i + 1) ELSE 0

(* parseInt on a string that starts with a digit *)
parseInt(s) == LET k == DigitRun(s, 1) IN Num(DigitsValue(SubStr(s, 1, k + 1)), 1)

(* parseFloat on a string that starts with a digit: digits, then an        *)
(* optional point and digits                                               *)
parseFloat(s) ==
  LET k == DigitRun(s, 1)
      f == IF k + 1 <= Len(s) /\ s[k + 1] = "." THEN DigitRun(s, k + 2) ELSE 0
  IN Num(DigitsValue(SubStr(s, 1, k + 1)) * Pow10(f) + DigitsValue(SubStr(s, k + 2, k + 2 + f)), Pow10(f))

(* String.prototype.split("\n") *)
RECURSIVE SplitLines(_, _, _)
SplitLines(s, i, cur) ==
  IF i > Len(s) THEN <<cur>>
  ELSE IF s[i] = "\n" THEN <<cur>> \o SplitLines(s, i + 1, <<>>)
  ELSE SplitLines(s, i + 1, Append(cur, s[i]))

(* String.prototype.trim *)
RECURSIVE trim(_)
trim(s) ==
  IF Len(s) = 0 THEN s
  ELSE IF s[1] \in Space THEN trim(Tail(s))
  ELSE IF s[Len(s)] \in Space THEN trim(SubStr(s, 1, Len(s)))
  ELSE s

Lines(text) ==
  LET raw == SplitLines(text, 1, <<>>)
  IN SelectSeq([k \in 1..Len(raw) |-> trim(raw[k])], LAMBDA l : Len(l) > 0)

(* the while loop over itemPattern.exec(text) *)
RECURSIVE Items(_, _)
Items(text, lastIndex) ==
  LET m == Exec(itemPattern, 4, text, lastIndex, FALSE)
  IN IF ~m.found THEN <<>>
     ELSE <<[description |-> trim(m.caps[1][1]),
             quantity |-> parseInt(m.caps[2][1]),
             unitPrice |-> parseFloat(m.caps[3][1]),
             totalPrice |-> parseFloat(m.caps[4][1])]>> \o Items(text, m.end)

extractBillingData(text) ==
  LET lines == Lines(text)
      invoiceMatch == Exec(InvoiceRe, 1, text, 1, TRUE)
      dateMatch == Exec(DateRe, 2, text, 1, FALSE)
      amountMatch == Exec(AmountRe, 1, text, 1, TRUE)
      meaningfulLines == SelectSeq(lines, LAMBDA line :
                           Len(line) > 3 /\ ~Test(AllDigitsRe, line, FALSE) /\ ~Test(AllPunctRe, line, FALSE))
  IN [invoiceNumber |-> IF invoiceMatch.found THEN Some(invoiceMatch.caps[1][1]) ELSE Some(<<>>),
      vendor |-> IF Len(meaningfulLines) > 0 THEN Some(meaningfulLines[1]) ELSE Some(<<>>),
      date |-> IF dateMatch.found THEN Some(dateMatch.all) ELSE Some(<<>>),
      totalAmount |-> IF amountMatch.found THEN Some(parseFloat(amountMatch.caps[1][1])) ELSE Some(Zero),
      currency |-> "USD",
      items |-> Items(text, 1),
      rawText |-> Some(text),
      confidence |-> Num(4, 5)]

(***************************************************************************)
(* Paths and the upload boundary (multer).                                 *)
(***************************************************************************)
RECURSIVE LastIndexOf(_, _, _)
LastIndexOf(s, c, i) == IF i = 0 THEN 0 ELSE IF s[i] = c THEN i ELSE LastIndexOf(s, c, i - 1)

(* path.extname of a file name without directories *)
extname(name) ==
  LET k == LastIndexOf(name, ".", Len(name))
  IN IF k <= 1 THEN <<>> ELSE SubStr(name, k, Len(name) + 1)

RECURSIVE IndexOf(_, _, _)
IndexOf(s, pat, i) ==
  IF i + Len(pat) - 1 > Len(s) THEN 0
  ELSE IF SubStr(s, i, i + Len(pat)) = pat THEN i ELSE IndexOf(s, pat, i + 1)

(* String.prototype.replace(pat, rep) with a string pattern: the first     *)
(* occurrence only                                                         *)
Replace(s, pat, rep) ==
  LET k == IndexOf(s, pat, 1)
  IN IF k = 0 THEN s ELSE SubStr(s, 1, k) \o rep \o SubStr(s, k + Len(pat), Len(s) + 1)

ProcessedSuffix == <<"_", "p", "r", "o", "c", "e", "s", "s", "e", "d", ".", "p", "n", "g">>

(* the processed image written over the upload itself *)
OutputPathSame(imagePath) == imagePath

(* a file of the uploads directory is named `${uuidv4()}-${originalname}`; *)
(* the directory and the uuid hold no dot, so the replacement falls in the *)
(* original name                                                           *)
OutputPath(imagePath) ==
  [imagePath EXCEPT !.name = Replace(imagePath.name, extname(imagePath.name), ProcessedSuffix)]

\* /jpeg|jpg|png|webp|bmp|tiff/
allowedTypes ==
  Alt(<<Lit(<<"j", "p", "e", "g">>), Lit(<<"j", "p", "g">>), Lit(<<"p", "n", "g">>),
        Lit(<<"w", "e", "b", "p">>), Lit(<<"b", "m", "p">>), Lit(<<"t", "i", "f", "f">>)>>)

fileFilter(file) ==
  LET ext == Test(allowedTypes, toLowerCase(extname(file.originalname)), FALSE)
      mimetype == Test(allowedTypes, file.mimetype, FALSE)
  IN mimetype /\ ext

Kilo == 1024

(* a limit of 20MB *)
FileSizeLimitDoubled == 20 * Kilo * Kilo

FileSizeLimit == 10 * Kilo * Kilo

(***************************************************************************)
(* Inputs.                                                                 *)
(***************************************************************************)
MaxUploads == 2

MaxPuts == 2

PngName == <<"a", ".", "p", "n", "g">>

JpgxName == <<"s", ".", "J", "P", "G", "x">>

PdfName == <<"b", ".", "p", "d", "f">>

ImagePng == <<"i", "m", "a", "g", "e", "/", "p", "n", "g">>

ImageJpeg == <<"i", "m", "a", "g", "e", "/", "j", "p", "e", "g">>

ApplicationPdf == <<"a", "p", "p", "l", "i", "c", "a", "t", "i", "o", "n", "/", "p", "d", "f">>

SmallSize == 2 * Kilo

UploadFiles ==
  {[originalname |-> PngName, mimetype |-> ImagePng, size |-> FileSizeLimit],
   [originalname |-> PngName, mimetype |-> ImagePng, size |-> FileSizeLimit + 1],
   [originalname |-> JpgxName, mimetype |-> ImageJpeg, size |-> FileSizeLimit + 1],
   [originalname |-> PdfName, mimetype |-> ApplicationPdf, size |-> SmallSize],
   [originalname |-> PdfName, mimetype |-> ImagePng, size |-> SmallSize]}

\* "ACME Ltd\nBill #A-7\n2024-03-01\nTotal: $12.50"
TextBill ==
  <<"A", "C", "M", "E", " ", "L", "t", "d", "\n", "B", "i", "l", "l", " ", "#", "A", "-", "7", "\n",
    "2", "0", "2", "4", "-", "0", "3", "-", "0", "1", "\n",
    "T", "o", "t", "a", "l", ":", " ", "$", "1", "2", ".", "5", "0">>

\* "Pen 2 x $3.50 $7.00"
TextItem ==
  <<"P", "e", "n", " ", "2", " ", "x", " ", "$", "3", ".", "5", "0", " ", "$", "7", ".", "0", "0">>

\* "???", a text no rule matches
TextNoise == <<"?", "?", "?">>

\* "Pen 2 x $3 $6\nInk 1 x $2 $2", two line items
TextTwoItems ==
  <<"P", "e", "n", " ", "2", " ", "x", " ", "$", "3", " ", "$", "6", "\n",
    "I", "n", "k", " ", "1", " ", "x", " ", "$", "2", " ", "$", "2">>

OcrTexts == {TextBill, TextItem, TextNoise, TextTwoItems}

(* what Tesseract.recognize can return: a text and a confidence in percent *)
OcrResults ==
  {[text |-> TextBill, confidence |-> 87],
   [text |-> TextItem, confidence |-> 100],
   [text |-> TextNoise, confidence |-> 0]}

(* the results the export is checked on: a bill with one item, a text with *)
(* no item and no field, a text with two items                             *)
ExportOcrResults ==
  {[text |-> TextBill, confidence |-> 87],
   [text |-> TextNoise, confidence |-> 0],
   [text |-> TextTwoItems, confidence |-> 93]}

VendorEdit == <<"A", "c", "m", "e">>

(* an id no upload was given *)
UnknownId == 0

(* the files multer's fileFilter lets through *)
Allowed == {file \in UploadFiles : fileFilter(file)}

(***************************************************************************)
(* State.                                                                  *)
(***************************************************************************)
VARIABLES
  billingRecords,  \* the in-memory store, in insertion order
  runs,            \* runs[k]: the processImageAsync call of the k-th accepted upload
  files,           \* the files that exist in the uploads directory
  nextUuid,        \* uuidv4(): the next identifier never given out before
  res,             \* the response to the latest request, with the request where it has parameters
  trace,           \* trace[k]: what the k-th accepted upload and its run did, in order
  puts,            \* the number of PUT requests that found their record
  exportFiles,     \* the workbooks that exist in the exports directory
  exportCount,     \* the number of workbooks written so far
  downloads        \* per workbook being sent or awaiting removal: its path and what is pending

vars == <<billingRecords, runs, files, nextUuid, res, trace, puts, exportFiles, exportCount, downloads>>

NoResponse == [op |-> "none"]

(* new Date().toISOString(): the model keeps no clock, every timestamp is  *)
(* this one value and only whether a timestamp is set is observed          *)
Now == "now"

Init ==
  /\ billingRecords = <<>>
  /\ runs = <<>>
  /\ files = {}
  /\ nextUuid = 1
  /\ res = NoResponse
  /\ trace = <<>>
  /\ puts = 0
  /\ exportFiles = {}
  /\ exportCount = 0
  /\ downloads = {}

(* a spread in which the fields of the first object win *)
MergeKeepFirst(a, b) == [f \in DOMAIN a \cup DOMAIN b |-> IF f \in DOMAIN a THEN a[f] ELSE b[f]]

(* { ...a, ...b } *)
Merge(a, b) == [f \in DOMAIN a \cup DOMAIN b |-> IF f \in DOMAIN b THEN b[f] ELSE a[f]]

NotFound == -1

(* Array.prototype.findIndex((r) => r.id === id), counted from 1 *)
findIndex(records, id) ==
  IF \E i \in 1..Len(records) : records[i].id = id
  THEN CHOOSE i \in 1..Len(records) : records[i].id = id /\ \A j \in 1..(i - 1) : records[j].id # id
  ELSE NotFound

(***************************************************************************)
(* POST /api/upload                                                        *)
(***************************************************************************)
InitialRecord(imageId, file, imagePath, t) ==
  [id |-> imageId,
   originalFilename |-> file.originalname,
   imagePath |-> imagePath,
   status |-> "processing",
   uploadedAt |-> t,
   extractedAt |-> Null,
   rawText |-> Null,
   invoiceNumber |-> Null,
   vendor |-> Null,
   date |-> Null,
   totalAmount |-> Null,
   currency |-> "USD",
   items |-> <<>>,
   confidence |-> Zero]

(* what the handler does, in the order of its statements; the call of      *)
(* processImageAsync runs up to its first await, inside preprocessImage    *)
UploadSteps == <<"push", "respond", "processImageAsync", "preprocessImage">>

(* multer stored the file; the handler creates the record, answers and     *)
(* starts the run                                                          *)
Upload(file) ==
  /\ Len(runs) < MaxUploads
  /\ file \in Allowed
  /\ file.size <= FileSizeLimit
  /\ LET imagePath == [uuid |-> nextUuid, name |-> file.originalname]
         imageId == nextUuid + 1
     IN /\ files' = files \cup {imagePath}
        /\ billingRecords' = Append(billingRecords, InitialRecord(imageId, file, imagePath, Now))
        /\ res' = [op |-> "upload", status |-> 200, body |-> [id |-> imageId, status |-> "processing"]]
        /\ runs' = Append(runs, [recordId |-> imageId, imagePath |-> imagePath,
                                 pc |-> "preprocessImage", processedImagePath |-> Null])
        /\ trace' = Append(trace, UploadSteps)
        /\ nextUuid' = nextUuid + 2
  /\ UNCHANGED <<puts, exportFiles, exportCount, downloads>>

(* the file filter refused the file: its Error reaches the error           *)
(* middleware, which knows only MulterError                                *)
UploadRefused(file) ==
  /\ file \notin Allowed
  /\ res' = [op |-> "upload", status |-> 500, body |-> "Internal server error"]
  /\ UNCHANGED <<billingRecords, runs, files, nextUuid, trace, puts, exportFiles, exportCount, downloads>>

(* the file passed the filter and is over limits.fileSize: multer raises   *)
(* LIMIT_FILE_SIZE and keeps no file                                       *)
UploadTooLarge(file) ==
  /\ file \in Allowed
  /\ file.size > FileSizeLimit
  /\ res' = [op |-> "upload", status |-> 400, body |-> "File size too large. Maximum size is 10MB."]
  /\ UNCHANGED <<billingRecords, runs, files, nextUuid, trace, puts, exportFiles, exportCount, downloads>>

(* the request has no "image" part *)
UploadNoFile ==
  /\ res' = [op |-> "upload", status |-> 400, body |-> "No image file provided"]
  /\ UNCHANGED <<billingRecords, runs, files, nextUuid, trace, puts, exportFiles, exportCount, downloads>>

(***************************************************************************)
(* The file filter on its own: multer calls it with the file of a request  *)
(* and takes its verdict from the callback.                                *)
(***************************************************************************)
\* a.png, a.jpg, a.jpeg, a.webp, a.bmp, a.tiff, A.PNG, s.JPGx, b.pdf, a.tif, png
FilterNames ==
  {<<"a", ".", "p", "n", "g">>,
   <<"a", ".", "j", "p", "g">>,
   <<"a", ".", "j", "p", "e", "g">>,
   <<"a", ".", "w", "e", "b", "p">>,
   <<"a", ".", "b", "m", "p">>,
   <<"a", ".", "t", "i", "f", "f">>,
   <<"A", ".", "P", "N", "G">>,
   <<"s", ".", "J", "P", "G", "x">>,
   <<"b", ".", "p", "d", "f">>,
   <<"a", ".", "t", "i", "f">>,
   <<"p", "n", "g">>}

\* image/png, image/jpeg, image/webp, image/bmp, image/tiff, image/gif, image/svg+xml, application/pdf, text/x-png
FilterTypes ==
  {<<"i", "m", "a", "g", "e", "/", "p", "n", "g">>,
   <<"i", "m", "a", "g", "e", "/", "j", "p", "e", "g">>,
   <<"i", "m", "a", "g", "e", "/", "w", "e", "b", "p">>,
   <<"i", "m", "a", "g", "e", "/", "b", "m", "p">>,
   <<"i", "m", "a", "g", "e", "/", "t", "i", "f", "f">>,
   <<"i", "m", "a", "g", "e", "/", "g", "i", "f">>,
   <<"i", "m", "a", "g", "e", "/", "s", "v", "g", "+", "x", "m", "l">>,
   <<"a", "p", "p", "l", "i", "c", "a", "t", "i", "o", "n", "/", "p", "d", "f">>,
   <<"t", "e", "x", "t", "/", "x", "-", "p", "n", "g">>}

FilterFiles == [originalname : FilterNames, mimetype : FilterTypes]

(* a request whose file part has reached multer *)
FilterInit ==
  /\ billingRecords = <<>>
  /\ runs = <<>>
  /\ files = {}
  /\ nextUuid = 1
  /\ trace = <<>>
  /\ puts = 0
  /\ exportFiles = {}
  /\ exportCount = 0
  /\ downloads = {}
  /\ \E file \in FilterFiles : res = [op |-> "fileFilter", req |-> file]

(* cb(null, true) or cb(new Error(...)) *)
CallFileFilter ==
  /\ res.op = "fileFilter"
  /\ "accept" \notin DOMAIN res
  /\ res' = [op |-> "fileFilter", req |-> res.req, accept |-> fileFilter(res.req)]
  /\ UNCHANGED <<billingRecords, runs, files, nextUuid, trace, puts, exportFiles, exportCount, downloads>>

FilterSpec == FilterInit /\ [][CallFileFilter]_vars

(***************************************************************************)
(* processImageAsync: one action per stretch between two awaits.           *)
(***************************************************************************)
(* the catch block: the record is changed in place *)
CatchWrite(records, recordId, t) ==
  LET recordIndex == findIndex(records, recordId)
  IN IF recordIndex # NotFound
     THEN [records EXCEPT ![recordIndex].status = "error", ![recordIndex].extractedAt = Some(t)]
     ELSE records

(* confidence / 100 *)
ToFraction(confidence) == Num(confidence, 100)

(* extractBillingData on each text the engine can return *)
Extracted == [text \in OcrTexts |-> extractBillingData(text)]

(* billingData, after `billingData.confidence = confidence / 100` *)
BillingData(text, confidence) ==
  [Extracted[text] EXCEPT !.confidence = ToFraction(confidence)]

(* a write in which the record's own fields win over the run's *)
SuccessWriteUnder(records, recordId, text, confidence, t) ==
  LET recordIndex == findIndex(records, recordId)
  IN IF recordIndex # NotFound
     THEN [records EXCEPT ![recordIndex] =
             Merge(Merge(BillingData(text, confidence),
                         [status |-> "completed", extractedAt |-> Some(t), rawText |-> Some(text)]),
                   @)]
     ELSE records

(* the write of the try block *)
SuccessWrite(records, recordId, text, confidence, t) ==
  LET recordIndex == findIndex(records, recordId)
  IN IF recordIndex # NotFound
     THEN [records EXCEPT ![recordIndex] =
             Merge(Merge(@, BillingData(text, confidence)),
                   [status |-> "completed", extractedAt |-> Some(t), rawText |-> Some(text)])]
     ELSE records

(* a stage that is entered again after it ran: the run stays where it was *)
StepAgain(k, pc, steps) ==
  /\ runs' = runs
  /\ trace' = [trace EXCEPT ![k] = @ \o steps]

Step(k, pc, steps) ==
  /\ runs' = [runs EXCEPT ![k].pc = pc]
  /\ trace' = [trace EXCEPT ![k] = @ \o steps]

(* as if the runs went through a queue: a run's preprocessing returns only *)
(* once every earlier run has ended                                        *)
PreprocessInTurn(k) ==
  /\ runs[k].pc = "preprocessImage"
  /\ \A j \in 1..(k - 1) : runs[j].pc = "done"
  /\ LET outputPath == OutputPath(runs[k].imagePath)
     IN /\ files' = files \cup {outputPath}
        /\ runs' = [runs EXCEPT ![k].pc = "recognize", ![k].processedImagePath = Some(outputPath)]
        /\ trace' = [trace EXCEPT ![k] = @ \o <<"recognize">>]
  /\ UNCHANGED <<billingRecords, nextUuid, res, puts, exportFiles, exportCount, downloads>>

(* sharp wrote the processed image; Tesseract.recognize is called *)
PreprocessOk(k) ==
  /\ runs[k].pc = "preprocessImage"
  /\ LET outputPath == OutputPath(runs[k].imagePath)
     IN /\ files' = files \cup {outputPath}
        /\ runs' = [runs EXCEPT ![k].pc = "recognize", ![k].processedImagePath = Some(outputPath)]
        /\ trace' = [trace EXCEPT ![k] = @ \o <<"recognize">>]
  /\ UNCHANGED <<billingRecords, nextUuid, res, puts, exportFiles, exportCount, downloads>>

(* sharp rejected the image *)
PreprocessFail(k) ==
  /\ runs[k].pc = "preprocessImage"
  /\ billingRecords' = CatchWrite(billingRecords, runs[k].recordId, Now)
  /\ Step(k, "done", <<"catch">>)
  /\ UNCHANGED <<files, nextUuid, res, puts, exportFiles, exportCount, downloads>>

(* the engine returned: extraction, the record's write and the removal of  *)
(* the processed image                                                     *)
OcrOk(k, text, confidence) ==
  /\ runs[k].pc = "recognize"
  /\ billingRecords' = SuccessWrite(billingRecords, runs[k].recordId, text, confidence, Now)
  /\ files' = files \ {runs[k].processedImagePath[1]}
  /\ Step(k, "done", <<"extractBillingData", "write", "remove">>)
  /\ UNCHANGED <<nextUuid, res, puts, exportFiles, exportCount, downloads>>

(* as OcrOk, but fs.removeSync throws (the file is still held open): the   *)
(* catch block runs after the write of the try block                       *)
OcrOkRemoveFail(k, text, confidence) ==
  /\ runs[k].pc = "recognize"
  /\ billingRecords' =
       CatchWrite(SuccessWrite(billingRecords, runs[k].recordId, text, confidence, Now),
                  runs[k].recordId, Now)
  /\ Step(k, "done", <<"extractBillingData", "write", "remove", "catch">>)
  /\ UNCHANGED <<files, nextUuid, res, puts, exportFiles, exportCount, downloads>>

(* the engine failed *)
OcrFail(k) ==
  /\ runs[k].pc = "recognize"
  /\ billingRecords' = CatchWrite(billingRecords, runs[k].recordId, Now)
  /\ Step(k, "done", <<"catch">>)
  /\ UNCHANGED <<files, nextUuid, res, puts, exportFiles, exportCount, downloads>>

(***************************************************************************)
(* The record endpoints.                                                   *)
(***************************************************************************)
(* GET /api/records/:id *)
GetRecord(id) ==
  /\ LET recordIndex == findIndex(billingRecords, id)
     IN res' = IF recordIndex = NotFound
               THEN [op |-> "get", req |-> [id |-> id], status |-> 404, body |-> "Record not found"]
               ELSE [op |-> "get", req |-> [id |-> id], status |-> 200, body |-> billingRecords[recordIndex]]
  /\ UNCHANGED <<billingRecords, runs, files, nextUuid, trace, puts, exportFiles, exportCount, downloads>>

(* PUT /api/records/:id *)
Put(id, body) ==
  LET recordIndex == findIndex(billingRecords, id)
  IN IF recordIndex = NotFound
     THEN /\ res' = [op |-> "put", req |-> [id |-> id, body |-> body], status |-> 404,
                     body |-> "Record not found"]
          /\ UNCHANGED <<billingRecords, runs, files, nextUuid, trace, puts, exportFiles, exportCount, downloads>>
     ELSE /\ puts < MaxPuts
          /\ billingRecords' = [billingRecords EXCEPT ![recordIndex] =
                                  Merge(Merge(@, body), [updatedAt |-> Now])]
          /\ res' = [op |-> "put", req |-> [id |-> id, body |-> body], status |-> 200,
                     body |-> billingRecords'[recordIndex]]
          /\ puts' = puts + 1
          /\ UNCHANGED <<runs, files, nextUuid, trace, exportFiles, exportCount, downloads>>

(* the ids a client can name: those it was given, and one it was not *)
KnownIds == {runs[k].recordId : k \in 1..Len(runs)} \cup {UnknownId}

Next ==
  \/ \E file \in UploadFiles : Upload(file)
  \/ \E file \in UploadFiles : UploadRefused(file)
  \/ \E file \in UploadFiles : UploadTooLarge(file)
  \/ UploadNoFile
  \/ \E k \in 1..Len(runs) : PreprocessOk(k)
  \/ \E k \in 1..Len(runs) : PreprocessFail(k)
  \/ \E k \in 1..Len(runs), data \in OcrResults : OcrOk(k, data.text, data.confidence)
  \/ \E k \in 1..Len(runs), data \in OcrResults : OcrOkRemoveFail(k, data.text, data.confidence)
  \/ \E k \in 1..Len(runs) : OcrFail(k)
  \/ \E id \in KnownIds : GetRecord(id)
  \/ \E id \in KnownIds : Put(id, <<>>)
  \/ \E id \in KnownIds : Put(id, [vendor |-> Some(VendorEdit)])
  \/ \E id \in KnownIds : Put(id, [status |-> "processing"])
  \/ \E id \in KnownIds : \E other \in KnownIds \ {id} : Put(id, [id |-> other])
  \/ \E id \in KnownIds : Put(id, [confidence |-> Num(5, 1)])

Spec == Init /\ [][Next]_vars

(* uploads, runs whose stages succeed, and the PUT and GET requests *)
PutNext ==
  \/ \E file \in UploadFiles : Upload(file)
  \/ \E k \in 1..Len(runs) : PreprocessOk(k)
  \/ \E k \in 1..Len(runs) : \E data \in {d \in OcrResults : d.text = TextBill} : OcrOk(k, data.text, data.confidence)
  \/ GetRecord(UnknownId)
  \/ \E id \in KnownIds : Put(id, <<>>)
  \/ \E id \in KnownIds : Put(id, [vendor |-> Some(VendorEdit)])
  \/ \E id \in KnownIds : \E other \in KnownIds \ {id} : Put(id, [id |-> other])

PutSpec == Init /\ [][PutNext]_vars

(* the uploads and the runs alone *)
PipelineNext ==
  \/ \E file \in UploadFiles : Upload(file)
  \/ \E file \in UploadFiles : UploadRefused(file)
  \/ \E file \in UploadFiles : UploadTooLarge(file)
  \/ UploadNoFile
  \/ \E k \in 1..Len(runs) : PreprocessOk(k)
  \/ \E k \in 1..Len(runs) : PreprocessFail(k)
  \/ \E k \in 1..Len(runs), data \in OcrResults : OcrOk(k, data.text, data.confidence)
  \/ \E k \in 1..Len(runs), data \in OcrResults : OcrOkRemoveFail(k, data.text, data.confidence)
  \/ \E k \in 1..Len(runs) : OcrFail(k)

PipelineSpec == Init /\ [][PipelineNext]_vars

(***************************************************************************)
(* GET /api/records                                                        *)
(***************************************************************************)
(* the record handed out as it is stored *)
ListedWhole(record) == record

ListedFields ==
  {"id", "invoiceNumber", "vendor", "date", "totalAmount", "currency", "status", "extractedAt",
   "confidence", "items"}

(* the object the handler builds for one record; items is always an array  *)
(* here, so `record.items || []` is record.items                           *)
Listed(record) == [f \in ListedFields |-> record[f]]

GetRecords ==
  /\ res' = [op |-> "records", status |-> 200,
             body |-> [i \in 1..Len(billingRecords) |-> Listed(billingRecords[i])]]
  /\ UNCHANGED <<billingRecords, runs, files, nextUuid, trace, puts, exportFiles, exportCount, downloads>>

(***************************************************************************)
(* generateExcelFile.  A cell holds a string (a sequence of characters, or *)
(* a plain string for currency and status), a number or a date.            *)
(***************************************************************************)
MaxExports == 1

\* "N/A"
NA == <<"N", "/", "A">>

\* "No items extracted"
NoItemsExtracted ==
  <<"N", "o", " ", "i", "t", "e", "m", "s", " ", "e", "x", "t", "r", "a", "c", "t", "e", "d">>

(* a null turned into the empty string, and no fallback *)
OrEmpty(x, fallback) == IF x = Null THEN <<>> ELSE x[1]

(* x || fallback, for x null or a string *)
OrString(x, fallback) == IF x = Null \/ x[1] = <<>> THEN fallback ELSE x[1]

(* x || fallback, for x null or a number *)
OrNumber(x, fallback) == IF x = Null THEN fallback ELSE IF Truthy(x[1]) THEN x[1] ELSE fallback

(* x || fallback, for the currency and the status *)
OrPlain(x, fallback) == IF x = "" THEN fallback ELSE x

(* new Date(null) is the epoch *)
Epoch == "epoch"

(* new Date(extractedAt).toLocaleDateString(): the day of the timestamp *)
toLocaleDateString(extractedAt) == [day |-> IF extractedAt = Null THEN Epoch ELSE extractedAt[1]]

SummaryRow(record) ==
  ("Invoice Number" :> OrString(record.invoiceNumber, NA)) @@
  ("Vendor" :> OrString(record.vendor, NA)) @@
  ("Date" :> OrString(record.date, NA)) @@
  ("Total Amount" :> OrNumber(record.totalAmount, Zero)) @@
  ("Currency" :> OrPlain(record.currency, "USD")) @@
  ("Status" :> OrPlain(record.status, "completed")) @@
  ("Processed Date" :> toLocaleDateString(record.extractedAt))

summaryData(records) == [i \in 1..Len(records) |-> SummaryRow(records[i])]

ItemRow(record, item) ==
  ("Invoice Number" :> OrString(record.invoiceNumber, NA)) @@
  ("Vendor" :> OrString(record.vendor, NA)) @@
  ("Item Description" :> OrString(Some(item.description), NA)) @@
  ("Quantity" :> OrNumber(Some(item.quantity), Zero)) @@
  ("Unit Price" :> OrNumber(Some(item.unitPrice), Zero)) @@
  ("Total Price" :> OrNumber(Some(item.totalPrice), Zero)) @@
  ("Invoice Date" :> OrString(record.date, NA))

NoItemsRow(record) ==
  ("Invoice Number" :> OrString(record.invoiceNumber, NA)) @@
  ("Vendor" :> OrString(record.vendor, NA)) @@
  ("Item Description" :> NoItemsExtracted) @@
  ("Quantity" :> Zero) @@
  ("Unit Price" :> Zero) @@
  ("Total Price" :> OrNumber(record.totalAmount, Zero)) @@
  ("Invoice Date" :> OrString(record.date, NA))

(* rows for the items alone: a record without items adds none *)
ItemRowsOnly(record) == [i \in 1..Len(record.items) |-> ItemRow(record, record.items[i])]

(* the rows one record adds to detailedData *)
RecordRows(record) ==
  IF Len(record.items) > 0
  THEN [i \in 1..Len(record.items) |-> ItemRow(record, record.items[i])]
  ELSE <<NoItemsRow(record)>>

RECURSIVE detailedData(_)
detailedData(records) ==
  IF records = <<>> THEN <<>> ELSE RecordRows(Head(records)) \o detailedData(Tail(records))

(* the workbook written to the exports directory; Date.now() in its name   *)
(* is the number of workbooks written so far: two exports never share a    *)
(* millisecond                                                             *)
generateExcelFile(records, now) ==
  [filename |-> now, Summary |-> summaryData(records), LineItems |-> detailedData(records)]

(***************************************************************************)
(* POST /api/export and GET /api/export/status                             *)
(***************************************************************************)
(* a filter that lets every record through *)
allRecords(records) == records

completedRecords(records) == SelectSeq(records, LAMBDA r : r.status = "completed")

Export ==
  /\ IF Len(completedRecords(billingRecords)) = 0
     THEN /\ res' = [op |-> "export", status |-> 400, body |-> "No completed records to export"]
          /\ UNCHANGED <<exportFiles, exportCount, downloads>>
     ELSE /\ exportCount < MaxExports
          /\ LET file == generateExcelFile(completedRecords(billingRecords), exportCount + 1)
             IN /\ exportFiles' = exportFiles \cup {file}
                /\ res' = [op |-> "export", status |-> 200, body |-> file.filename]
                /\ downloads' = downloads \cup {[filepath |-> file.filename, pc |-> "download"]}
          /\ exportCount' = exportCount + 1
  /\ UNCHANGED <<billingRecords, runs, files, nextUuid, trace, puts>>

(* the callback of res.download without an error: the removal timer is set *)
DownloadDone(d) ==
  /\ d.pc = "download"
  /\ downloads' = (downloads \ {d}) \cup {[d EXCEPT !.pc = "timer"]}
  /\ UNCHANGED <<billingRecords, runs, files, nextUuid, res, trace, puts, exportFiles, exportCount>>

(* the callback with an error raised before any header was sent: the 500   *)
(* is answered and the removal timer is set                                *)
DownloadError(d) ==
  /\ d.pc = "download"
  /\ res' = [op |-> "export", status |-> 500, body |-> "Failed to download file"]
  /\ downloads' = (downloads \ {d}) \cup {[d EXCEPT !.pc = "timer"]}
  /\ UNCHANGED <<billingRecords, runs, files, nextUuid, trace, puts, exportFiles, exportCount>>

(* the callback with an error raised while the file was being sent (the    *)
(* client went away): the headers are out, res.status(500).json throws,    *)
(* and the callback ends before setTimeout is reached                      *)
DownloadAborted(d) ==
  /\ d.pc = "download"
  /\ downloads' = downloads \ {d}
  /\ UNCHANGED <<billingRecords, runs, files, nextUuid, res, trace, puts, exportFiles, exportCount>>

(* the timer callback, 60000 ms after the download callback *)
RemoveExport(d) ==
  /\ d.pc = "timer"
  /\ exportFiles' = {file \in exportFiles : file.filename # d.filepath}
  /\ downloads' = downloads \ {d}
  /\ UNCHANGED <<billingRecords, runs, files, nextUuid, res, trace, puts, exportCount>>

(* an export offered whatever the store holds *)
canExportAlways(completed) == completed >= 0

canExport(completed) == completed > 0

ExportStatus ==
  /\ LET totalRecords == Len(billingRecords)
         completed == Len(SelectSeq(billingRecords, LAMBDA r : r.status = "completed"))
         processingRecords == Len(SelectSeq(billingRecords, LAMBDA r : r.status = "processing"))
         errorRecords == Len(SelectSeq(billingRecords, LAMBDA r : r.status = "error"))
     IN res' = [op |-> "exportStatus", status |-> 200,
                body |-> [total |-> totalRecords, completed |-> completed,
                          processing |-> processingRecords, error |-> errorRecords,
                          canExport |-> canExport(completed)]]
  /\ UNCHANGED <<billingRecords, runs, files, nextUuid, trace, puts, exportFiles, exportCount, downloads>>

(* the uploads and runs, the PUT requests that clear fields of a record,   *)
(* and the export                                                          *)
ExportNext ==
  \/ \E file \in UploadFiles : Upload(file)
  \/ \E k \in 1..Len(runs) : PreprocessOk(k)
  \/ \E k \in 1..Len(runs) : PreprocessFail(k)
  \/ \E k \in 1..Len(runs), data \in ExportOcrResults : OcrOk(k, data.text, data.confidence)
  \/ \E id \in KnownIds : Put(id, [vendor |-> Null, totalAmount |-> Null])
  \/ Export
  \/ ExportStatus

ExportSpec == Init /\ [][ExportNext]_vars

(* the export with the callback of its download and its removal timer *)
DownloadNext ==
  \/ \E file \in Allowed : Upload(file)
  \/ \E k \in 1..Len(runs) : PreprocessOk(k)
  \/ \E k \in 1..Len(runs) : \E data \in ExportOcrResults : OcrOk(k, data.text, data.confidence)
  \/ Export
  \/ \E d \in downloads : DownloadDone(d)
  \/ \E d \in downloads : DownloadError(d)
  \/ \E d \in downloads : DownloadAborted(d)
  \/ \E d \in downloads : RemoveExport(d)

DownloadSpec == Init /\ [][DownloadNext]_vars

(* a status word of the client's own, as a PUT body can carry *)
OtherStatus == "archived"

(* the status counts under uploads, runs and PUTs that name a status *)
StatusNext ==
  \/ \E file \in Allowed : Upload(file)
  \/ \E k \in 1..Len(runs) : PreprocessOk(k)
  \/ \E k \in 1..Len(runs) : PreprocessFail(k)
  \/ \E k \in 1..Len(runs) : \E data \in {d \in OcrResults : d.text = TextBill} : OcrOk(k, data.text, data.confidence)
  \/ \E id \in KnownIds : Put(id, [status |-> OtherStatus])
  \/ \E id \in KnownIds : Put(id, [status |-> "processing"])
  \/ ExportStatus

StatusSpec == Init /\ [][StatusNext]_vars

(***************************************************************************)
(* The catch block of processImageAsync, statement by statement: it sets   *)
(* status, then extractedAt.  No await stands between the two assignments, *)
(* so the task that runs the block keeps the event loop until both are     *)
(* done.                                                                   *)
(***************************************************************************)
(* as if the catch block gave up the event loop between its assignments *)
RunningNever == FALSE

(* a catch block has made its first assignment and not yet its second *)
Running == \E k \in 1..Len(runs) : runs[k].pc = "catch"

(* a stage threw: billingRecords[recordIndex].status = "error" *)
CatchStatus(k) ==
  /\ runs[k].pc \in {"preprocessImage", "recognize"}
  /\ LET recordIndex == findIndex(billingRecords, runs[k].recordId)
     IN /\ billingRecords' = IF recordIndex # NotFound
                             THEN [billingRecords EXCEPT ![recordIndex].status = "error"]
                             ELSE billingRecords
        /\ runs' = [runs EXCEPT ![k] = Merge(@, [pc |-> "catch", recordIndex |-> recordIndex])]
  /\ trace' = [trace EXCEPT ![k] = @ \o <<"catch">>]
  /\ UNCHANGED <<files, nextUuid, res, puts, exportFiles, exportCount, downloads>>

(* billingRecords[recordIndex].extractedAt = new Date().toISOString() *)
CatchExtractedAt(k) ==
  /\ runs[k].pc = "catch"
  /\ billingRecords' = IF runs[k].recordIndex # NotFound
                       THEN [billingRecords EXCEPT ![runs[k].recordIndex].extractedAt = Some(Now)]
                       ELSE billingRecords
  /\ runs' = [runs EXCEPT ![k].pc = "done"]
  /\ UNCHANGED <<files, nextUuid, res, trace, puts, exportFiles, exportCount, downloads>>

(* the reads, the three writes of a record, and the catch block in two     *)
(* steps; a task starts only when no other is in the middle of its block   *)
StepNext ==
  \/ ~Running /\ \E file \in UploadFiles : Upload(file)
  \/ ~Running /\ \E k \in 1..Len(runs) : PreprocessOk(k)
  \/ ~Running /\ \E k \in 1..Len(runs) : \E data \in {d \in OcrResults : d.text = TextBill} : OcrOk(k, data.text, data.confidence)
  \/ ~Running /\ \E k \in 1..Len(runs) : CatchStatus(k)
  \/ \E k \in 1..Len(runs) : CatchExtractedAt(k)
  \/ ~Running /\ \E id \in KnownIds : Put(id, [vendor |-> Some(VendorEdit)])
  \/ ~Running /\ \E id \in KnownIds : GetRecord(id)
  \/ ~Running /\ GetRecords
  \/ ~Running /\ Export
  \/ ~Running /\ ExportStatus

StepSpec == Init /\ [][StepNext]_vars

(***************************************************************************)
(* Properties.  The k-th accepted upload created billingRecords[k]: the    *)
(* store only grows at its end.                                            *)
(***************************************************************************)
Terminal == {"completed", "error"}

Indexes == 1..Len(billingRecords)

(* the run of the k-th upload ends in this step *)
RunEnds(k) == runs[k].pc # "done" /\ runs'[k].pc = "done"

(* this step is a PUT that found its record *)
PutStep == puts' # puts

(* where `after` comes after `before` in a sequence of steps *)
Precedes(steps, before, after) ==
  \E i, j \in 1..Len(steps) : i < j /\ steps[i] = before /\ steps[j] = after

AtDefaults(record) ==
  /\ record.invoiceNumber = Null
  /\ record.vendor = Null
  /\ record.date = Null
  /\ record.totalAmount = Null
  /\ record.rawText = Null
  /\ record.items = <<>>
  /\ record.currency = "USD"
  /\ record.confidence = Zero

InUnitInterval(x) == 0 <= x.n /\ x.n <= x.d

(* C1: a record is created in 'processing', and once its status is        *)
(* 'completed' or 'error' no step changes the status again.                *)
C1_StatusMonotonic ==
  [][/\ \A i \in Indexes : billingRecords[i].status \in Terminal
                              => billingRecords'[i].status = billingRecords[i].status
     /\ \A i \in 1..Len(billingRecords') : i \notin Indexes => billingRecords'[i].status = "processing"]_vars

(* C2: in every state, each record has extractedAt non-null exactly when   *)
(* its status is not 'processing'.                                         *)
C2_ExtractedAtIffLeft ==
  \A i \in Indexes : (billingRecords[i].extractedAt # Null) <=> (billingRecords[i].status # "processing")

(* C3: when a pipeline run ends, by returning or by an exception, the      *)
(* record of its upload is 'completed' or 'error', never still             *)
(* 'processing', whatever PUT requests came in between.                    *)
C3_RunEndsTerminal ==
  [][\A k \in 1..Len(runs) : RunEnds(k) => billingRecords'[k].status \in Terminal]_vars

(* C4: once a pipeline run has ended, the '_processed.png' file its        *)
(* preprocessing wrote no longer exists.                                   *)
C4_IntermediateRemoved ==
  \A k \in 1..Len(runs) :
    (runs[k].pc = "done" /\ runs[k].processedImagePath # Null) => runs[k].processedImagePath[1] \notin files

(* C5: an upload's response is sent after the record is stored and before  *)
(* any stage of its run starts, and GET /api/records/:id with the id of    *)
(* the response finds a record in every later state.                       *)
C5_ResponseFirstAndIdResolves ==
  \A k \in 1..Len(runs) :
    /\ Precedes(trace[k], "push", "respond")
    /\ Precedes(trace[k], "respond", "preprocessImage")
    /\ findIndex(billingRecords, runs[k].recordId) # NotFound

(* C6: when a pipeline run ends with its record in 'error', the record's   *)
(* extracted fields are at their creation defaults and extractedAt is set. *)
C6_ErrorKeepsDefaults ==
  [][\A k \in 1..Len(runs) :
       (RunEnds(k) /\ billingRecords'[k].status = "error")
         => AtDefaults(billingRecords'[k]) /\ billingRecords'[k].extractedAt # Null]_vars

(* C7: a run whose stages all succeed writes status 'completed',           *)
(* extractedAt, the OCR text, the extracted fields and the engine's        *)
(* confidence over 100 in one step; a record in 'processing' has           *)
(* confidence 0 and every record's confidence lies in [0,1].               *)
C7_SuccessWriteAndConfidence ==
  [][/\ \A k \in 1..Len(runs) :
          (RunEnds(k) /\ trace'[k][Len(trace'[k])] = "remove") =>
             \E data \in OcrResults :
               LET record == billingRecords'[k]
                   billingData == extractBillingData(data.text)
               IN /\ record.status = "completed"
                  /\ record.extractedAt # Null
                  /\ record.rawText = Some(data.text)
                  /\ \A f \in {"invoiceNumber", "vendor", "date", "totalAmount", "currency", "items"} :
                        record[f] = billingData[f]
                  /\ record.confidence.n * 100 = data.confidence * record.confidence.d
     /\ \A i \in 1..Len(billingRecords') :
          /\ billingRecords'[i].status = "processing" => billingRecords'[i].confidence = Zero
          /\ InUnitInterval(billingRecords'[i].confidence)]_vars

(* C8: a PUT leaves the id and the status of every record as they were.    *)
C8_PutKeepsIdAndStatus ==
  [][PutStep => \A i \in Indexes :
                  /\ billingRecords'[i].id = billingRecords[i].id
                  /\ billingRecords'[i].status = billingRecords[i].status]_vars

(* C9: no two records of the store have the same id, and no step changes   *)
(* the id of a record.                                                     *)
C9_IdsUniqueAndFixed ==
  [][/\ \A i, j \in 1..Len(billingRecords') : billingRecords'[i].id = billingRecords'[j].id => i = j
     /\ \A i \in Indexes : billingRecords'[i].id = billingRecords[i].id]_vars

(* C10: a PUT changes no field of a record whose status is 'processing'.   *)
C10_PutSkipsProcessing ==
  [][PutStep => \A i \in Indexes :
                  billingRecords[i].status = "processing" => billingRecords'[i] = billingRecords[i]]_vars

(* what a PUT of `body` to `id` may do to the store when it may also set   *)
(* the fields of `stamped` on its own                                      *)
PutFrame(id, body, stamped) ==
  LET recordIndex == findIndex(billingRecords, id)
  IN IF recordIndex = NotFound
     THEN res'.status = 404 /\ billingRecords' = billingRecords
     ELSE /\ res'.status = 200
          /\ Len(billingRecords') = Len(billingRecords)
          /\ \A j \in Indexes \ {recordIndex} : billingRecords'[j] = billingRecords[j]
          /\ DOMAIN billingRecords[recordIndex] \subseteq DOMAIN billingRecords'[recordIndex]
          /\ \A f \in DOMAIN billingRecords'[recordIndex] \ (DOMAIN body \cup stamped) :
                /\ f \in DOMAIN billingRecords[recordIndex]
                /\ billingRecords'[recordIndex][f] = billingRecords[recordIndex][f]
          /\ \A f \in DOMAIN body \ stamped : billingRecords'[recordIndex][f] = body[f]

(* this step answers a request to `op` *)
Answers(op) == res'.op = op /\ (res' # res \/ puts' # puts \/ exportCount' # exportCount)

(* every PUT and GET keeps to PutFrame *)
PutAndGetFrame(stamped) ==
  /\ Answers("put") => PutFrame(res'.req.id, res'.req.body, stamped)
  /\ Answers("get") =>
        /\ billingRecords' = billingRecords
        /\ findIndex(billingRecords, res'.req.id) = NotFound => res'.status = 404

(* C11, as claimed: a PUT with an id of the store changes only the fields  *)
(* of its body, keeps every other field of the record and every other      *)
(* record; GET and PUT with an id that is not in the store answer 404 and  *)
(* leave the store as it was.                                              *)
C11_PutOnlyBodyFields == [][PutAndGetFrame({})]_vars

(* C11, amended: a PUT with an id of the store changes only the fields of  *)
(* its body and updatedAt, which it always sets; it keeps every other      *)
(* field of the record and every other record; GET and PUT with an id that *)
(* is not in the store answer 404 and leave the store as it was.           *)
C11_PutBodyFieldsAndUpdatedAt == [][PutAndGetFrame({"updatedAt"})]_vars

(* a PUT has changed the vendor of one of two records *)
C11_Witness ==
  /\ res.op = "put"
  /\ res.status = 200
  /\ res.req.body = [vendor |-> Some(VendorEdit)]
  /\ res.body.vendor = Some(VendorEdit)
  /\ Len(billingRecords) = 2

(* the catch block has written the status of record i and not yet its      *)
(* extractedAt: the record is neither as before the error write nor as     *)
(* after it                                                                *)
Torn(i) == \E k \in 1..Len(runs) : runs[k].pc = "catch" /\ runs[k].recordIndex = i

Reads == {"get", "records", "export", "exportStatus"}

(* C12: every read (GET /api/records, GET /api/records/:id, export, export *)
(* status) is answered from a store in which no record is in the middle of *)
(* a write: it sees each record as before or as after the success write,   *)
(* the error write (status and extractedAt) or the PUT merge, and a record *)
(* it returns in 'error' has its extractedAt.                              *)
C12_ReadsSeeWholeRecords ==
  [][/\ (\E op \in Reads : Answers(op)) => \A i \in Indexes : ~Torn(i)
     /\ (Answers("get") /\ res'.status = 200 /\ res'.body.status = "error") => res'.body.extractedAt # Null
     /\ Answers("records") =>
          \A i \in 1..Len(res'.body) : res'.body[i].status = "error" => res'.body[i].extractedAt # Null]_vars

(* the list was read after one run's error write and another's success     *)
(* write, while neither was in progress                                    *)
C12_Witness ==
  /\ res.op = "records"
  /\ Len(res.body) = 2
  /\ res.body[1].status = "error"
  /\ res.body[1].extractedAt # Null
  /\ res.body[2].status = "completed"

(* C13: two uploads whose runs interleave with each other and with PUT     *)
(* requests are given distinct ids, the record of each is 'completed' or   *)
(* 'error' when its run ends, and the run started for one upload writes to *)
(* no record but the one its upload created.                               *)
C13_UploadsIndependent ==
  [][/\ \A j, k \in 1..Len(runs') : j # k => runs'[j].recordId # runs'[k].recordId
     /\ \A k \in 1..Len(runs) :
          RunEnds(k) => /\ billingRecords'[k].status \in Terminal
                        /\ \A j \in Indexes \ {k} : billingRecords'[j] = billingRecords[j]]_vars

(* C14: whatever the runs of the other uploads do, fail or never return,   *)
(* a further upload is accepted and its run started, each stage of a run   *)
(* can return, and a run that has ended left its record 'completed' or     *)
(* 'error'; nothing orders the ends of two runs.                           *)
C14_RunsDoNotBlock ==
  /\ Len(runs) < MaxUploads =>
       \A file \in Allowed : file.size <= FileSizeLimit => ENABLED Upload(file)
  /\ Len(runs) = Len(billingRecords)
  /\ \A k \in 1..Len(runs) :
       /\ runs[k].pc = "preprocessImage" => ENABLED PreprocessOk(k) /\ ENABLED PreprocessFail(k)
       /\ runs[k].pc = "recognize" =>
            /\ ENABLED OcrFail(k)
            /\ \A data \in OcrResults : ENABLED OcrOk(k, data.text, data.confidence)
       /\ runs[k].pc = "done" => billingRecords[k].status \in Terminal

(* the second upload's run has ended with its record 'completed' while the *)
(* first upload's run has not yet left preprocessing                       *)
C14_Witness ==
  /\ Len(runs) = 2
  /\ runs[1].pc = "preprocessImage"
  /\ runs[2].pc = "done"
  /\ billingRecords[2].status = "completed"
  /\ billingRecords[1].status = "processing"

(***************************************************************************)
(* The export.  Exported is what POST /api/export has to write from the    *)
(* store of this state: its completed records, in store order.             *)
(***************************************************************************)
CompletedIndexes == {i \in Indexes : billingRecords[i].status = "completed"}

NthCompleted(n) ==
  CHOOSE i \in CompletedIndexes : Cardinality({j \in CompletedIndexes : j <= i}) = n

Exported == [n \in 1..Cardinality(CompletedIndexes) |-> billingRecords[NthCompleted(n)]]

(* the workbook this step wrote *)
Written == CHOOSE file \in exportFiles' \ exportFiles : TRUE

(* this step is an export that wrote a workbook *)
Exports == Answers("export") /\ res'.status = 200

MaxOf(a, b) == IF a >= b THEN a ELSE b

(* the number of rows the first n records have in the line-items sheet *)
RECURSIVE RowsUpTo(_, _)
RowsUpTo(records, n) ==
  IF n = 0 THEN 0 ELSE RowsUpTo(records, n - 1) + MaxOf(1, Len(records[n].items))

(* the rows of the line-items sheet, record by record: the items in order, *)
(* or one row 'No items extracted' whose total price is total(record)      *)
LineItemRows(total(_)) ==
  /\ Len(Written.LineItems) = RowsUpTo(Exported, Len(Exported))
  /\ \A n \in 1..Len(Exported) :
       LET record == Exported[n]
           Row(j) == Written.LineItems[RowsUpTo(Exported, n - 1) + j]
       IN IF Len(record.items) >= 1
          THEN \A j \in 1..Len(record.items) :
                 /\ Row(j)["Item Description"] = record.items[j].description
                 /\ Row(j)["Quantity"] = record.items[j].quantity
                 /\ Row(j)["Unit Price"] = record.items[j].unitPrice
                 /\ Row(j)["Total Price"] = record.items[j].totalPrice
          ELSE /\ Row(1)["Item Description"] = NoItemsExtracted
               /\ Row(1)["Quantity"] = Zero
               /\ Row(1)["Unit Price"] = Zero
               /\ Some(Row(1)["Total Price"]) = total(record)

TotalAmount(record) == record.totalAmount

TotalAmountOrZero(record) == IF record.totalAmount = Null THEN Some(Zero) ELSE record.totalAmount

(* C16, as claimed: in the line-items sheet an exported record with n >= 1 *)
(* items has n rows, in item order, and one with no item has one row 'No   *)
(* items extracted' with quantity 0, unit price 0 and the record's total   *)
(* amount as total price; the sheet has sum of max(1, n) rows.             *)
C16_LineItemRowsTotal == [][Exports => LineItemRows(TotalAmount)]_vars

(* C16, amended: as claimed, but the total price of the row 'No items      *)
(* extracted' is the record's total amount when it has one and 0 when its  *)
(* total amount is null.                                                   *)
C16_LineItemRowsTotalOrZero == [][Exports => LineItemRows(TotalAmountOrZero)]_vars

(* an export wrote three rows for a record with two items and a record     *)
(* with none                                                               *)
C16_Witness ==
  /\ res.op = "export"
  /\ res.status = 200
  /\ \E file \in exportFiles :
       /\ Len(file.Summary) = 2
       /\ Len(file.LineItems) = 3
       /\ \E j \in 1..3 : file.LineItems[j]["Item Description"] = NoItemsExtracted

(* a cell that holds a string, and not the empty one *)
FilledString(cell) == cell # <<>> /\ \A k \in DOMAIN cell : cell[k] \in STRING

(* C17: the summary sheet has one row per exported record, in store order, *)
(* and its invoice number, vendor, date, total amount, currency, status    *)
(* and processed date cells are never null or blank, whatever fields of    *)
(* the record are empty or null.                                           *)
C17_SummaryRowsFilled ==
  [][Exports =>
       /\ Len(Written.Summary) = Len(Exported)
       /\ \A n \in 1..Len(Exported) :
            LET row == Written.Summary[n]
                record == Exported[n]
            IN /\ DOMAIN row = {"Invoice Number", "Vendor", "Date", "Total Amount", "Currency",
                                "Status", "Processed Date"}
               /\ FilledString(row["Invoice Number"])
               /\ FilledString(row["Vendor"])
               /\ FilledString(row["Date"])
               /\ DOMAIN row["Total Amount"] = {"n", "d"}
               /\ row["Currency"] # ""
               /\ row["Status"] # ""
               /\ row["Processed Date"].day \in {Now, Epoch}
               /\ record.invoiceNumber \notin {Null, Some(<<>>)} => Some(row["Invoice Number"]) = record.invoiceNumber
               /\ record.vendor \notin {Null, Some(<<>>)} => Some(row["Vendor"]) = record.vendor
               /\ record.date \notin {Null, Some(<<>>)} => Some(row["Date"]) = record.date
               /\ record.totalAmount # Null => Some(row["Total Amount"]) = record.totalAmount
               /\ row["Currency"] = record.currency
               /\ row["Status"] = record.status]_vars

(* an export wrote the rows of two records, the second with an empty       *)
(* invoice number and a vendor that is null                                *)
C17_Witness ==
  /\ res.op = "export"
  /\ res.status = 200
  /\ Len(billingRecords) = 2
  /\ billingRecords[2].invoiceNumber = Some(<<>>)
  /\ billingRecords[2].vendor = Null
  /\ billingRecords[1].vendor # Null
  /\ \E file \in exportFiles :
       /\ Len(file.Summary) = 2
       /\ file.Summary[2]["Vendor"] = NA
       /\ file.Summary[2]["Invoice Number"] = NA
       /\ file.Summary[1]["Vendor"] # NA

(* C18: GET /api/export/status answers the number of records, the number   *)
(* with each status and canExport = (completed > 0), and canExport is true *)
(* exactly when POST /api/export in that state is not answered 400.        *)
C18_ExportStatusCounts ==
  [][Answers("exportStatus") =>
       /\ res'.status = 200
       /\ res'.body.total = Len(billingRecords)
       /\ res'.body.completed = Cardinality(CompletedIndexes)
       /\ res'.body.processing = Cardinality({i \in Indexes : billingRecords[i].status = "processing"})
       /\ res'.body.error = Cardinality({i \in Indexes : billingRecords[i].status = "error"})
       /\ res'.body.canExport = (res'.body.completed > 0)
       /\ res'.body.canExport = (Len(completedRecords(billingRecords)) # 0)]_vars

(* the status was asked with one record 'completed' and one not *)
C18_Witness ==
  /\ res.op = "exportStatus"
  /\ res.body.total = 2
  /\ res.body.completed = 1
  /\ res.body.canExport

TenMegabytes == 10 * Kilo * Kilo

(* C19: an upload that fails validation, by a file over 10MB, by a file    *)
(* the filter does not allow or by no file at all, adds no record and      *)
(* starts no run: the store, the runs and the uploads directory are after  *)
(* the request as before it.                                               *)
C19_RejectedUploadAddsNothing ==
  [][/\ (Answers("upload") /\ res'.status # 200)
          => UNCHANGED <<billingRecords, runs, files, nextUuid, trace>>
     /\ \A file \in UploadFiles :
          (file.size > TenMegabytes \/ file \notin Allowed)
            => /\ ~Upload(file)
               /\ (UploadRefused(file) \/ UploadTooLarge(file))
                    => res'.status # 200 /\ UNCHANGED <<billingRecords, runs, files, nextUuid, trace>>
     /\ UploadNoFile => res'.status # 200 /\ UNCHANGED <<billingRecords, runs, files, nextUuid, trace>>]_vars

(* a file over the limit was refused after an upload that was accepted,    *)
(* and the store still holds the one record                                *)
C19_Witness ==
  /\ res.op = "upload"
  /\ res.status = 400
  /\ res.body = "File size too large. Maximum size is 10MB."
  /\ Len(billingRecords) = 1
  /\ Len(runs) = 1

(* C20: an upload refused for its size or for its type or extension is     *)
(* answered with a 4xx status, never with a 5xx status.                    *)
C20_RejectedUploadIsClientError ==
  (res.op = "upload" /\ res.status # 200) => res.status \in 400..499

(* the total a text states: the number after its first total, amount or    *)
(* sum label, or null when it has no such label                            *)
StatedTotal ==
  [text \in OcrTexts |->
     LET amountMatch == Exec(AmountRe, 1, text, 1, TRUE)
     IN IF amountMatch.found THEN Some(parseFloat(amountMatch.caps[1][1])) ELSE Null]

(* C21: a record that a run completes from a text without a total, amount  *)
(* or sum label followed by a number has a null totalAmount, and a         *)
(* completed record has totalAmount 0 only if its text states the total 0. *)
C21_NoTotalIsNull ==
  [][\A k \in 1..Len(runs) :
       (RunEnds(k) /\ billingRecords'[k].status = "completed")
         => billingRecords'[k].totalAmount = StatedTotal[billingRecords'[k].rawText[1]]]_vars

(* the texts that match none of the extraction rules *)
MatchesNoRule ==
  {text \in OcrTexts :
     /\ StatedTotal[text] = Null
     /\ Extracted[text].invoiceNumber = Some(<<>>)
     /\ Extracted[text].vendor = Some(<<>>)
     /\ Extracted[text].date = Some(<<>>)
     /\ Extracted[text].items = <<>>}

(* run k leaves Tesseract.recognize with a text and extracts from it *)
Extracts(k) ==
  /\ runs[k].pc = "recognize"
  /\ Len(trace'[k]) > Len(trace[k])
  /\ trace'[k][Len(trace[k]) + 1] = "extractBillingData"

EmptyField(x) == x \in {Null, Some(<<>>)}

(* C22: a run whose preprocessing and OCR succeeded and whose text matches *)
(* none of the extraction rules leaves its record 'completed', not         *)
(* 'error', with empty invoiceNumber, vendor, date and totalAmount, no     *)
(* items and the currency USD.                                             *)
C22_NoMatchCompletesEmpty ==
  [][\A k \in 1..Len(runs) :
       (Extracts(k) /\ billingRecords'[k].rawText[1] \in MatchesNoRule)
         => /\ billingRecords'[k].status = "completed"
            /\ EmptyField(billingRecords'[k].invoiceNumber)
            /\ EmptyField(billingRecords'[k].vendor)
            /\ EmptyField(billingRecords'[k].date)
            /\ EmptyField(billingRecords'[k].totalAmount)
            /\ billingRecords'[k].items = <<>>
            /\ billingRecords'[k].currency = "USD"]_vars

(* the events of a run's trace at which the run assigns extractedAt: the   *)
(* write of the try block and the catch block                              *)
ExtractedAtWrites(events) ==
  Cardinality({n \in 1..Len(events) : events[n] \in {"write", "catch"}})

(* C23: extractedAt of a record is written at most once, in the step in    *)
(* which its status leaves 'processing': a run assigns it once, to a       *)
(* record that is 'processing' and has none yet, and no other step changes *)
(* it.                                                                     *)
C23_ExtractedAtWrittenOnce ==
  [][/\ \A i \in Indexes :
          billingRecords'[i].extractedAt # billingRecords[i].extractedAt
            => /\ billingRecords[i].extractedAt = Null
               /\ billingRecords[i].status = "processing"
               /\ billingRecords'[i].status # "processing"
     /\ \A k \in 1..Len(runs) :
          RunEnds(k) =>
            /\ ExtractedAtWrites(trace'[k]) <= 1
            /\ LET recordIndex == findIndex(billingRecords, runs[k].recordId)
               IN recordIndex # NotFound
                    => /\ billingRecords[recordIndex].extractedAt = Null
                       /\ billingRecords[recordIndex].status = "processing"]_vars

(* C24: every workbook in the exports directory is on its way out: its     *)
(* download is still being sent, or its removal timer is set.  A workbook  *)
(* with neither stays in the directory for good.                           *)
C24_ExportFileRemovalPending ==
  \A file \in exportFiles : \E d \in downloads : d.filepath = file.filename

\* .jpg, .jpeg, .png, .webp, .bmp, .tiff
ImageExtensions ==
  {<<".", "j", "p", "g">>, <<".", "j", "p", "e", "g">>, <<".", "p", "n", "g">>, <<".", "w", "e", "b", "p">>, <<".", "b", "m", "p">>, <<".", "t", "i", "f", "f">>}

ImagePrefix == <<"i", "m", "a", "g", "e", "/">>

(* an image type and exactly one of the six extensions, in any case *)
ExactImage(file) ==
  /\ toLowerCase(extname(file.originalname)) \in ImageExtensions
  /\ Len(file.mimetype) > Len(ImagePrefix)
  /\ SubStr(file.mimetype, 1, Len(ImagePrefix) + 1) = ImagePrefix

(* C25: the file filter accepts a file if and only if its type is an image *)
(* type and its lower-cased extension is exactly one of jpg, jpeg, png,    *)
(* webp, bmp and tiff; a name or type that only contains one of these      *)
(* words is refused.                                                       *)
C25_FilterAcceptsExactImages ==
  "accept" \in DOMAIN res => (res.accept <=> ExactImage(res.req))

Stages == {"preprocessImage", "recognize", "extractBillingData"}

(* how often a run entered a stage *)
Entered(events, stage) == Cardinality({n \in 1..Len(events) : events[n] = stage})

(* C26: an accepted upload adds exactly one record and starts exactly one  *)
(* run for it, and nothing else adds a record or a run; a run enters each  *)
(* of preprocessing, OCR and extraction at most once; no step removes a    *)
(* record, so the store never gets shorter.                                *)
C26_OneRecordOneRun ==
  [][/\ Len(billingRecords') >= Len(billingRecords)
     /\ \A i \in Indexes : billingRecords'[i].imagePath = billingRecords[i].imagePath
     /\ Len(runs') = Len(billingRecords')
     /\ IF Answers("upload") /\ res'.status = 200
        THEN /\ Len(billingRecords') = Len(billingRecords) + 1
             /\ runs'[Len(runs')].recordId = billingRecords'[Len(billingRecords')].id
             /\ runs'[Len(runs')].pc = "preprocessImage"
        ELSE Len(billingRecords') = Len(billingRecords)
     /\ \A k \in 1..Len(runs') : \A stage \in Stages : Entered(trace'[k], stage) <= 1]_vars

(* two uploads whose runs have ended, one after a failed stage *)
C26_Witness ==
  /\ Len(billingRecords) >= 2
  /\ \A k \in 1..Len(runs) : runs[k].pc = "done"
  /\ \E i \in Indexes : billingRecords[i].status = "error"
  /\ \E i \in Indexes : billingRecords[i].status = "completed"

Hidden == {"rawText", "imagePath"}

Produced ==
  {"invoiceNumber", "vendor", "date", "totalAmount", "currency", "items", "confidence",
   "rawText", "status", "extractedAt"}

(* run k ends with the write of its try block *)
Succeeds(k) == RunEnds(k) /\ trace'[k][Len(trace'[k])] = "remove"

(* the record holds what a run on its raw text writes *)
HoldsRunValues(record) ==
  /\ record.rawText # Null
  /\ record.rawText[1] \in OcrTexts
  /\ LET billingData == Extracted[record.rawText[1]]
     IN /\ \A f \in {"invoiceNumber", "vendor", "date", "totalAmount", "currency", "items"} :
             record[f] = billingData[f]
        /\ \E data \in OcrResults \cup ExportOcrResults :
             data.text = record.rawText[1] /\ record.confidence = ToFraction(data.confidence)
  /\ record.status = "completed"
  /\ record.extractedAt = Some(Now)

(* C28: the record a successful run writes holds the run's values in the   *)
(* ten fields the run produces, whatever a PUT had put there while the     *)
(* record was 'processing', and keeps every other field as it was.         *)
C28_PipelineWriteWins ==
  [][\A k \in 1..Len(runs) :
       Succeeds(k) =>
         LET recordIndex == findIndex(billingRecords, runs[k].recordId)
         IN recordIndex # NotFound
              => /\ HoldsRunValues(billingRecords'[recordIndex])
                 /\ DOMAIN billingRecords'[recordIndex] = DOMAIN billingRecords[recordIndex]
                 /\ \A f \in DOMAIN billingRecords[recordIndex] \ Produced :
                      billingRecords'[recordIndex][f] = billingRecords[recordIndex][f]]_vars

(* the vendor of a record was edited while it was 'processing', and the    *)
(* record is now completed with the vendor of its text and the updatedAt   *)
(* of the edit                                                             *)
C28_Witness ==
  /\ res.op = "put"
  /\ res.status = 200
  /\ res.req.body = [vendor |-> Some(VendorEdit)]
  /\ res.body.status = "processing"
  /\ \E i \in Indexes :
       /\ billingRecords[i].id = res.req.id
       /\ billingRecords[i].status = "completed"
       /\ billingRecords[i].vendor = Extracted[TextBill].vendor
       /\ billingRecords[i].vendor # Some(VendorEdit)
       /\ "updatedAt" \in DOMAIN billingRecords[i]

Statuses == {"processing", "completed", "error"}

(* C29: every record of the store has one of the statuses 'processing',    *)
(* 'completed' and 'error', and the counts of a status answer add up:      *)
(* total = completed + processing + error.                                 *)
C29_StatusCountsAddUp ==
  /\ \A i \in Indexes : billingRecords[i].status \in Statuses
  /\ res.op = "exportStatus"
       => res.body.total = res.body.completed + res.body.processing + res.body.error

(* the uploads as multer stored them *)
Originals(rs) == {rs[k].imagePath : k \in 1..Len(rs)}

(* C30: a run never deletes or rewrites an uploaded file: every upload     *)
(* still exists after every step, also once its run has ended, the         *)
(* processed image a run writes is no upload, and the only file a step     *)
(* removes is the processed image of the run that ends in that step.       *)
C30_OriginalUploadKept ==
  [][/\ Originals(runs') \subseteq files'
     /\ \A k \in 1..Len(runs') :
          runs'[k].processedImagePath # Null
            => runs'[k].processedImagePath[1] \notin Originals(runs')
     /\ \A f \in files \ files' :
          \E k \in 1..Len(runs) :
            RunEnds(k) /\ runs[k].processedImagePath = Some(f) /\ f # runs[k].imagePath]_vars

(* one run has ended 'completed' and removed its processed image, another  *)
(* has ended 'error' after OCR and left its processed image, and both      *)
(* uploads exist                                                           *)
C30_Witness ==
  /\ \E k \in 1..Len(runs) :
       /\ runs[k].pc = "done"
       /\ billingRecords[k].status = "completed"
       /\ runs[k].processedImagePath # Null
       /\ runs[k].processedImagePath[1] \notin files
       /\ runs[k].imagePath \in files
  /\ \E k \in 1..Len(runs) :
       /\ runs[k].pc = "done"
       /\ billingRecords[k].status = "error"
       /\ runs[k].processedImagePath # Null
       /\ runs[k].processedImagePath[1] \in files
       /\ runs[k].imagePath \in files

====
